---- MODULE Spec2Model ----
(***************************************************************************)
(* Model of pbs-backuper: the backup orchestrator (internal/backup), the   *)
(* prefix grouper and archive builder (internal/archiver), the snapshot    *)
(* builder and differ (internal/scanner) and the remote storage they use   *)
(* (internal/storage).                                                     *)
(*                                                                         *)
(* Strings are tuples of one-character strings, so that slicing            *)
(* (dir[:prefixDigits]), concatenation and byte-wise ordering are the      *)
(* operations the Go code performs.                                        *)
(***************************************************************************)
EXTENDS Integers, Sequences, FiniteSets, TLC

\* ------------------------------------------------------------------------
\* Bounds of the model
\* ------------------------------------------------------------------------

\* Number of backup runs (full or incremental) started in one behaviour.
MaxRuns == 2

\* Number of runs started in one behaviour that follows the schedule of
\* one full backup and incremental backups after it.
MaxScheduleRuns == 3

\* Number of modifications made to the chunk directory in one behaviour.
MaxDiskOps == 1

\* Number of runs started in one behaviour in which the remote also holds
\* metadata documents that no run of this program wrote.
MaxForeignRuns == 2

\* Length of the directory lists handed to GenerateArchiveGroups.
MaxDirs == 3

\* Number of runs started in one behaviour in which the context can end.
MaxFaultRuns == 2

\* ------------------------------------------------------------------------
\* Strings
\* ------------------------------------------------------------------------

\* Byte values of the characters that occur in names (Go compares strings
\* byte-wise).
CharCode ==
    [c \in {"-", ".", "/", "0", "1", "2", "3", "4", "5", "6", "7", "8", "9",
            "A", "B", "C", "D", "E", "F", "a", "b", "c", "d", "e", "f", "g",
            "h", "j", "k", "m", "n", "o", "p", "r", "s", "t", "u", "z"} |->
        CASE c = "-" -> 45 [] c = "." -> 46 [] c = "/" -> 47
          [] c = "0" -> 48 [] c = "1" -> 49 [] c = "2" -> 50
          [] c = "3" -> 51 [] c = "4" -> 52 [] c = "5" -> 53
          [] c = "6" -> 54 [] c = "7" -> 55 [] c = "8" -> 56
          [] c = "9" -> 57
          [] c = "A" -> 65 [] c = "B" -> 66 [] c = "C" -> 67
          [] c = "D" -> 68 [] c = "E" -> 69 [] c = "F" -> 70
          [] c = "a" -> 97 [] c = "b" -> 98 [] c = "c" -> 99
          [] c = "d" -> 100 [] c = "e" -> 101 [] c = "f" -> 102
          [] c = "g" -> 103 [] c = "h" -> 104 [] c = "j" -> 106
          [] c = "k" -> 107 [] c = "m" -> 109 [] c = "n" -> 110
          [] c = "o" -> 111 [] c = "p" -> 112 [] c = "r" -> 114
          [] c = "s" -> 115 [] c = "t" -> 116 [] c = "u" -> 117
          [] c = "z" -> 122]

\* a < b for Go strings: byte-wise lexicographic order.
RECURSIVE StrLess(_, _)
StrLess(a, b) ==
    IF b = << >> THEN FALSE
    ELSE IF a = << >> THEN TRUE
    ELSE IF Head(a) = Head(b) THEN StrLess(Tail(a), Tail(b))
    ELSE CharCode[Head(a)] < CharCode[Head(b)]

\* strings.Repeat(c, n)
Repeat(c, n) == [i \in 1..n |-> c]

\* The elements of a set of strings in ascending order (sort.Strings).
RECURSIVE SortStrings(_)
SortStrings(S) ==
    IF S = {} THEN << >>
    ELSE LET m == CHOOSE x \in S : \A y \in S \ {x} : StrLess(x, y)
         IN <<m>> \o SortStrings(S \ {m})

\* The set of elements of a sequence.
Range(s) == {s[i] : i \in 1..Len(s)}

\* SortList leaving the list as it is.
SortList_asGiven(l) == l

\* sort.Strings on a slice: the elements of a list, repetitions included,
\* in ascending order.
RECURSIVE SortList(_)
SortList(l) ==
    IF l = << >> THEN << >>
    ELSE LET i == CHOOSE j \in 1..Len(l) :
                     \A k \in 1..Len(l) : ~StrLess(l[k], l[j])
         IN <<l[i]>> \o SortList(SubSeq(l, 1, i - 1) \o SubSeq(l, i + 1, Len(l)))

\* The empty Go map.
EmptyMap == << >>

\* ------------------------------------------------------------------------
\* Program constants
\* ------------------------------------------------------------------------

MetadataFileName ==
    <<"b", "a", "c", "k", "u", "p", "-", "m", "e", "t", "a", "d", "a", "t",
      "a", ".", "j", "s", "o", "n">>

MetadataVersion == 1

\* Config.RemotePath of the runs.
RemotePath == <<"r">>

\* A path with every run of separators made one separator.
RECURSIVE Squeeze(_)
Squeeze(p) ==
    IF Len(p) < 2 THEN p
    ELSE IF p[1] = "/" /\ p[2] = "/" THEN Squeeze(Tail(p))
    ELSE <<p[1]>> \o Squeeze(Tail(p))

\* filepath.Clean for paths without "." and ".." elements: separators are
\* not repeated and none ends the path, the root excepted; the empty path
\* becomes ".".
Clean(p) ==
    LET q == Squeeze(p)
    IN IF q = << >> THEN <<".">>
       ELSE IF Len(q) >= 2 /\ q[Len(q)] = "/" THEN SubSeq(q, 1, Len(q) - 1)
       ELSE q

\* filepath.Join(dir, name): empty elements are ignored, the others are
\* joined with a separator and the result is cleaned.
Join(dir, name) ==
    IF dir = << >> /\ name = << >> THEN << >>
    ELSE IF dir = << >> THEN Clean(name)
    ELSE IF name = << >> THEN Clean(dir)
    ELSE Clean(dir \o <<"/">> \o name)

Sha256Suffix == <<".", "s", "h", "a", "2", "5", "6">>

TarGzSuffix == <<".", "t", "a", "r", ".", "g", "z">>

\* ------------------------------------------------------------------------
\* The chunk directory on disk
\* ------------------------------------------------------------------------

\* A name under the chunk root that has no entry.
NoEntry == [Kind |-> "none"]

\* A regular file: its size, modification time and bytes.  A modification
\* time is whole seconds plus tenths of a second.
File(size, mtime, data) ==
    [Kind |-> "file", IsDir |-> FALSE, Size |-> size, ModTime |-> mtime,
     Data |-> data, Children |-> EmptyMap]

\* A directory: its modification time and its entries by name.
Dir(mtime, children) ==
    [Kind |-> "dir", IsDir |-> TRUE, Size |-> 0, ModTime |-> mtime,
     Data |-> "", Children |-> children]

Time(sec, tenth) == [sec |-> sec, tenth |-> tenth]

\* regexp ^[0-9a-fA-F]{4}$
HexChars ==
    {"0", "1", "2", "3", "4", "5", "6", "7", "8", "9",
     "a", "b", "c", "d", "e", "f", "A", "B", "C", "D", "E", "F"}

\* hexPattern testing the length only.
hexPattern_lengthOnly(name) == Len(name) = 4

hexPattern(name) == Len(name) = 4 /\ \A i \in 1..4 : name[i] \in HexChars

\* Sum of f[x] over the domain of f.
RECURSIVE SumOver(_)
SumOver(f) ==
    IF DOMAIN f = {} THEN 0
    ELSE LET x == CHOOSE y \in DOMAIN f : TRUE
         IN f[x] + SumOver([y \in DOMAIN f \ {x} |-> f[y]])

\* dirSize counting the regular files directly in the directory only.
dirSize_filesOnly(children) ==
    SumOver([c \in {d \in DOMAIN children : ~children[d].IsDir} |->
                children[c].Size])

\* scanner.scanDirectory, node.Size += childNode.Size in both branches of
\* the loop over the entries: the Size of a directory node.
dirSize(children) == SumOver([c \in DOMAIN children |-> children[c].Size])

\* scanner.scanDirectory: the FileTreeNode of a directory and its subtree.
RECURSIVE scanDirectory(_, _)
scanDirectory(name, entry) ==
    LET child(c) ==
            IF entry.Children[c].IsDir
            THEN scanDirectory(c, entry.Children[c])
            ELSE [Name |-> c, Size |-> entry.Children[c].Size,
                  ModTime |-> entry.Children[c].ModTime, IsDir |-> FALSE,
                  Children |-> EmptyMap]
        children == [c \in DOMAIN entry.Children |-> child(c)]
    IN [Name |-> name,
        Size |-> dirSize(children),
        ModTime |-> entry.ModTime, IsDir |-> TRUE, Children |-> children]

\* The entries under the chunk root accepted as shards.
ShardDirs(disk) ==
    {n \in DOMAIN disk : disk[n].Kind = "dir" /\ hexPattern(n)}

\* scanner.ScanFileTree: the snapshot, keyed by shard name.
ScanFileTree(disk) == [n \in ShardDirs(disk) |-> scanDirectory(n, disk[n])]

\* scanner.GetChunkDirectories: the shard names in ascending order.
GetChunkDirectories(disk) == SortStrings(ShardDirs(disk))

\* scanner.hasTreeChanged
RECURSIVE hasTreeChanged(_, _)
hasTreeChanged(oldNode, newNode) ==
    IF \/ oldNode.Size # newNode.Size
       \/ oldNode.ModTime # newNode.ModTime
       \/ oldNode.IsDir # newNode.IsDir
    THEN TRUE
    ELSE IF ~oldNode.IsDir THEN FALSE
    ELSE IF Cardinality(DOMAIN oldNode.Children)
              # Cardinality(DOMAIN newNode.Children) THEN TRUE
    ELSE \/ \E name \in DOMAIN oldNode.Children :
                \/ name \notin DOMAIN newNode.Children
                \/ hasTreeChanged(oldNode.Children[name],
                                  newNode.Children[name])
         \/ \E name \in DOMAIN newNode.Children :
                name \notin DOMAIN oldNode.Children

\* CompareFileTrees reporting every shard of the new tree.
CompareFileTrees_everyShard(oldTree, newTree) ==
    DOMAIN newTree \cup {d \in DOMAIN oldTree : d \notin DOMAIN newTree}

\* CompareFileTrees without the loop over the old tree.
CompareFileTrees_noRemoved(oldTree, newTree) ==
    {d \in DOMAIN newTree :
        \/ d \notin DOMAIN oldTree
        \/ hasTreeChanged(oldTree[d], newTree[d])}

\* scanner.CompareFileTrees: the names mapped to true in changedDirs.
CompareFileTrees(oldTree, newTree) ==
    {d \in DOMAIN newTree :
        \/ d \notin DOMAIN oldTree
        \/ hasTreeChanged(oldTree[d], newTree[d])}
    \cup {d \in DOMAIN oldTree : d \notin DOMAIN newTree}

\* ------------------------------------------------------------------------
\* Archiver
\* ------------------------------------------------------------------------

\* calculateRange padding both ends with "0".
calculateRange_zeroPadded(prefix, prefixDigits) ==
    <<prefix \o Repeat("0", 4 - prefixDigits),
      prefix \o Repeat("0", 4 - prefixDigits)>>

\* archiver.calculateRange
calculateRange(prefix, prefixDigits) ==
    <<prefix \o Repeat("0", 4 - prefixDigits),
      prefix \o Repeat("f", 4 - prefixDigits)>>

\* fmt.Sprintf("%s-%s.tar.gz", startRange, endRange)
ArchiveNameOf(startRange, endRange) ==
    startRange \o <<"-">> \o endRange \o TarGzSuffix

\* validPrefixDigits without the lower limit.
validPrefixDigits_upperOnly(prefixDigits) == ~(prefixDigits > 4)

\* archiver.GenerateArchiveGroups, first statement: the accepted range of
\* prefixDigits.
validPrefixDigits(prefixDigits) == ~(prefixDigits < 1 \/ prefixDigits > 4)

\* prefixOf taking one character whatever prefixDigits is.
prefixOf_firstCharacter(dir, prefixDigits) == SubSeq(dir, 1, 1)

\* dir[:prefixDigits]
prefixOf(dir, prefixDigits) == SubSeq(dir, 1, prefixDigits)

\* archiver.GenerateArchiveGroups: [err, groups].
GenerateArchiveGroups(directories, prefixDigits) ==
    IF ~validPrefixDigits(prefixDigits)
    THEN [err |-> "prefix digits must be between 1 and 4", groups |-> << >>]
    ELSE
      LET accepted(dir) == Len(dir) = 4
          prefixes == {prefixOf(directories[i], prefixDigits) :
                          i \in {j \in 1..Len(directories) :
                                    accepted(directories[j])}}
          dirsOf(p) ==
              LET inGroup(dir) ==
                      accepted(dir) /\ prefixOf(dir, prefixDigits) = p
              IN SelectSeq(directories, inGroup)
          group(p) ==
              LET r == calculateRange(p, prefixDigits)
              IN [Prefix |-> p, StartRange |-> r[1], EndRange |-> r[2],
                  ArchiveName |-> ArchiveNameOf(r[1], r[2]),
                  Directories |-> SortList(dirsOf(p)),
                  NeedsUpdate |-> FALSE]
          sorted == SortStrings(prefixes)
      IN [err |-> "", groups |-> [i \in 1..Len(sorted) |-> group(sorted[i])]]

\* MarkGroupsForUpdate looking only at the first member of each group.
MarkGroupsForUpdate_firstMember(groups, changedDirs) ==
    [i \in 1..Len(groups) |->
        IF groups[i].Directories[1] \in changedDirs
        THEN [groups[i] EXCEPT !.NeedsUpdate = TRUE]
        ELSE groups[i]]

\* archiver.MarkGroupsForUpdate
MarkGroupsForUpdate(groups, changedDirs) ==
    [i \in 1..Len(groups) |->
        IF \E j \in 1..Len(groups[i].Directories) :
               groups[i].Directories[j] \in changedDirs
        THEN [groups[i] EXCEPT !.NeedsUpdate = TRUE]
        ELSE groups[i]]

\* tar.Writer.WriteHeader stores the modification time rounded to the
\* nearest second.
RoundSecond(t) ==
    IF t.tenth >= 5 THEN Time(t.sec + 1, 0) ELSE Time(t.sec, 0)

\* archiver.addDirectoryToTar: the headers and bytes written for an entry
\* and its subtree (filepath.Walk visits names in lexical order).
RECURSIVE addDirectoryToTar(_)
addDirectoryToTar(entry) ==
    [IsDir |-> entry.IsDir, Size |-> entry.Size,
     ModTime |-> RoundSecond(entry.ModTime), Data |-> entry.Data,
     Children |-> [c \in DOMAIN entry.Children |->
                      addDirectoryToTar(entry.Children[c])]]

\* archiver.CreateArchive, the loop over group.Directories: os.Stat reports
\* member k as missing and the loop continues with the next one.
afterMissing(dirs, k) == k + 1

\* archiver.CalculateChecksum: SHA-256 of the archive bytes, taken to be
\* collision free: equal digests exactly for equal bytes.
CalculateChecksum(archive) == [sha256 |-> archive]

\* archiver.CreateChecksumFile: "<checksum>  <archiveName>\n", kept as its
\* whitespace-separated fields.
CreateChecksumFile(archiveName, checksum) == <<checksum, archiveName>>

\* ------------------------------------------------------------------------
\* Remote storage and the metadata document
\* ------------------------------------------------------------------------

\* m with key k set to v (Go: m[k] = v).
Put(m, k, v) == [x \in DOMAIN m \cup {k} |-> IF x = k THEN v ELSE m[x]]

\* models.BackupMetadata before anything is stored in it.  The document is
\* kept as the value json.Unmarshal gives back for what json.MarshalIndent
\* wrote; BackupTime is not read by any run and is left out.
NoMetadata ==
    [Version |-> 0, PrefixDigits |-> 0, FileTree |-> EmptyMap,
     Checksums |-> EmptyMap]

\* models.BackupResult as RunFullBackup and RunIncrementalBackup create it.
NewResult ==
    [TotalArchives |-> 0, UpdatedArchives |-> 0, SkippedArchives |-> 0,
     ErrorArchives |-> << >>, UploadedFiles |-> << >>, Details |-> EmptyMap]

MetadataPath == Join(RemotePath, MetadataFileName)

\* backup.getRemoteChecksum: [err, value]; the storage read fails when the
\* record is absent or the storage fails.
getRemoteChecksum(rem, remotePath, fault) ==
    IF fault = "get_remote_checksum" \/ remotePath \notin DOMAIN rem
    THEN [err |-> "failed to get file content", value |-> ""]
    ELSE IF Len(rem[remotePath]) >= 1
    THEN [err |-> "", value |-> rem[remotePath][1]]
    ELSE [err |-> "invalid checksum file format", value |-> ""]

\* needsUploadOf without the comparison: every rebuilt archive is uploaded.
needsUploadOf_always(rc, checksum) == TRUE

\* backup.processArchiveGroup, step 3: an upload is needed unless the remote
\* checksum record was read and holds the hash just computed.
needsUploadOf(rc, checksum) == ~(rc.err = "" /\ rc.value = checksum)

\* updateChecksums done right after the hash is computed, before the upload.
updateChecksums_beforeUpload(sums, name, checksum, e) ==
    IF e \in {"failed to create archive", "failed to calculate checksum"}
    THEN sums ELSE Put(sums, name, checksum)

\* backup.processArchiveGroup, last statement: the checksums map takes the
\* computed hash; every failing step returns before it.
updateChecksums(sums, name, checksum, e) ==
    IF e = "" THEN Put(sums, name, checksum) ELSE sums

\* recordArchiveUpload appending the name before the error of UploadFile
\* is looked at.
recordArchiveUpload_attempted(res, name, tried, uploaded) ==
    IF tried THEN [res EXCEPT !.UploadedFiles = Append(@, name)] ELSE res

\* backup.processArchiveGroup, after step 4: the archive name is appended
\* to UploadedFiles as soon as UploadFile has returned without an error.
recordArchiveUpload(res, name, tried, uploaded) ==
    IF uploaded THEN [res EXCEPT !.UploadedFiles = Append(@, name)] ELSE res

\* loadRemoteMetadata without the existence check: a missing document reads
\* as an empty one.
loadRemoteMetadata_noExistsCheck(rem, fault) ==
    IF fault = "exists"
    THEN [err |-> "failed to check metadata file existence",
          metadata |-> NoMetadata]
    ELSE IF MetadataPath \notin DOMAIN rem
    THEN [err |-> "", metadata |-> NoMetadata]
    ELSE IF fault = "not_found"
    THEN [err |-> "no previous backup metadata found, use full backup mode",
          metadata |-> NoMetadata]
    ELSE IF fault = "download"
    THEN [err |-> "failed to download metadata", metadata |-> NoMetadata]
    ELSE IF fault = "parse"
    THEN [err |-> "failed to parse metadata", metadata |-> NoMetadata]
    ELSE [err |-> "", metadata |-> rem[MetadataPath]]

\* backup.loadRemoteMetadata: [err, metadata].  FileExists answers false
\* for a document that is absent, and also when rclone lsf fails with a
\* text that contains "not found" ("not_found"); any other failure of
\* lsf is an error ("exists").
loadRemoteMetadata(rem, fault) ==
    IF fault = "exists"
    THEN [err |-> "failed to check metadata file existence",
          metadata |-> NoMetadata]
    ELSE IF MetadataPath \notin DOMAIN rem \/ fault = "not_found"
    THEN [err |-> "no previous backup metadata found, use full backup mode",
          metadata |-> NoMetadata]
    ELSE IF fault = "download"
    THEN [err |-> "failed to download metadata", metadata |-> NoMetadata]
    ELSE IF fault = "parse"
    THEN [err |-> "failed to parse metadata", metadata |-> NoMetadata]
    ELSE [err |-> "", metadata |-> rem[MetadataPath]]

\* recordGroupError without the Details entry.
recordGroupError_noDetails(res, name, e) ==
    IF e # "" THEN [res EXCEPT !.ErrorArchives = Append(@, name)] ELSE res

\* recordGroupError counting the failed group as skipped as well.
recordGroupError_alsoSkipped(res, name, e) ==
    IF e # ""
    THEN [res EXCEPT !.ErrorArchives = Append(@, name),
                     !.SkippedArchives = @ + 1,
                     !.Details = Put(@, name, e)]
    ELSE res

\* The handling of a group's error in the loops of RunFullBackup and
\* RunIncrementalBackup: the error is recorded and the loop goes on.
recordGroupError(res, name, e) ==
    IF e # ""
    THEN [res EXCEPT !.ErrorArchives = Append(@, name),
                     !.Details = Put(@, name, e)]
    ELSE res

\* Whether the loop of a run processes a group: always in RunFullBackup,
\* only if it is marked in RunIncrementalBackup.
ShouldProcess(runMode, group) == runMode = "full" \/ group.NeedsUpdate

\* ------------------------------------------------------------------------
\* State
\* ------------------------------------------------------------------------

VARIABLES
    chunk,            \* the chunk directory: entry name -> entry
    remote,           \* remote storage: path -> content
    pc,               \* position of the run: idle, load, download, scan, list,
                      \*   process, done (result returned), failed (error)
    mode,             \* "full" or "incremental"
    prefixDigits,     \* Config.PrefixDigits of the run
    oldMetadata,      \* RunIncrementalBackup: the prior metadata loaded
    fileTree,         \* the snapshot scanned by the run
    groups,           \* the run's archive groups
    idx,              \* index of the next group of the loop
    checksums,        \* the run's checksums map
    result,           \* the run's BackupResult
    err,              \* the error returned by a failed run
    calls,            \* history: UploadFile calls of the run, in order
    attempts,         \* history: one record per group the loop has passed
    runs,             \* history: number of runs started
    diskOps,          \* history: number of changes made to the chunk dir
    touched,          \* history: chunk dir changed since the last scan
    quiet,            \* history: the previous run persisted its metadata
                      \*   and the chunk dir did not change between that
                      \*   run's scan and this run's scan
    prev,             \* history: how the previous run ended, which kind
                      \*   it was, and diskOps when it returned
    call,             \* a package function called on its own: its
                      \*   arguments and what it returned
    temp,             \* the names of the files in Config.TempPath
    ctxDone,          \* the context of the run is cancelled or past its
                      \*   deadline
    frame             \* the activation of processArchiveGroup: the step
                      \*   it is at and its locals.  The steps, in the
                      \*   order of the code: stat and walk once per
                      \*   member (CreateArchive), hash, cat
                      \*   (getRemoteChecksum), upload_archive,
                      \*   checksum_file, upload_checksum

vars ==
    <<chunk, remote, pc, mode, prefixDigits, oldMetadata, fileTree, groups,
      idx, checksums, result, err, calls, attempts, runs, diskOps, touched,
      quiet, prev, call, temp, ctxDone, frame>>

runVars ==
    <<mode, prefixDigits, oldMetadata, fileTree, groups, idx, checksums,
      result, err, calls, attempts>>

\* ------------------------------------------------------------------------
\* The environment: shards and their contents
\* ------------------------------------------------------------------------

Shard00 == <<"0", "0", "0", "0">>

Shard01 == <<"0", "1", "0", "0">>

Shards == {Shard00, Shard01}

FileName == <<"f">>

\* A shard holding one file.
ContentA == Dir(Time(1, 0), [n \in {FileName} |-> File(1, Time(1, 0), "a")])

\* The file rewritten with other bytes.
ContentB == Dir(Time(1, 0), [n \in {FileName} |-> File(2, Time(2, 0), "b")])

\* The file of ContentA rewritten with the same bytes within the second.
ContentA2 == Dir(Time(1, 0), [n \in {FileName} |-> File(1, Time(1, 1), "a")])

ShardContents == {ContentA, ContentB, ContentA2}

\* Config.PrefixDigits values the runs are started with.
PrefixChoices == {1, 2}

\* No package function is being called on its own.
NoCall == [fn |-> "none"]

\* The run is between two calls of processArchiveGroup.
NoFrame == [at |-> "loop"]

\* ------------------------------------------------------------------------
\* Initial state: an empty remote, no run in progress
\* ------------------------------------------------------------------------

Init ==
    /\ chunk = [s \in Shards |-> ContentA]
    /\ remote = EmptyMap
    /\ pc = "idle"
    /\ mode = "full"
    /\ prefixDigits = 0
    /\ oldMetadata = NoMetadata
    /\ fileTree = EmptyMap
    /\ groups = << >>
    /\ idx = 0
    /\ checksums = EmptyMap
    /\ result = NewResult
    /\ err = ""
    /\ calls = << >>
    /\ attempts = << >>
    /\ runs = 0
    /\ diskOps = 0
    /\ touched = FALSE
    /\ quiet = FALSE
    /\ prev = [persisted |-> FALSE, failed |-> {}, mode |-> "none",
               diskOps |-> 0]
    /\ call = NoCall
    /\ temp = {}
    /\ ctxDone = FALSE
    /\ frame = NoFrame

\* ------------------------------------------------------------------------
\* Actions
\* ------------------------------------------------------------------------

\* Something outside the program changes a shard: creates it, rewrites its
\* file or deletes it.  A change is observed by the next read of the chunk
\* directory (Scan, ListAndGroup, StatMember, WalkMember).
ModifyShard ==
    /\ diskOps < MaxDiskOps
    /\ pc \in {"idle", "list", "process"}
    /\ \E s \in Shards, c \in ShardContents \cup {NoEntry} :
          /\ chunk[s] # c
          /\ chunk' = [chunk EXCEPT ![s] = c]
    /\ diskOps' = diskOps + 1
    /\ touched' = TRUE
    /\ UNCHANGED <<remote, pc, runVars, runs, quiet, prev>>
    /\ UNCHANGED <<call, temp, ctxDone, frame>>

\* Fail handing the error over as if it were a result.
Fail_asResult(e) ==
    /\ pc' = "done"
    /\ err' = e

\* A run returning nil and an error to its caller.
Fail(e) ==
    /\ pc' = "failed"
    /\ err' = e

\* RunFullBackup is called on a manager configured with one of pds.
StartFullWith(pds) ==
    /\ pc = "idle"
    /\ \E pd \in pds : prefixDigits' = pd
    /\ mode' = "full"
    /\ pc' = "scan"
    /\ runs' = runs + 1
    /\ result' = NewResult
    /\ UNCHANGED <<chunk, remote, oldMetadata, fileTree, groups, idx,
                   checksums, err, calls, attempts, diskOps, touched, quiet,
                   prev>>
    /\ UNCHANGED <<call, temp, ctxDone, frame>>

\* RunFullBackup is called with a PrefixDigits that buildConfig accepts.
StartFull == StartFullWith(PrefixChoices)

\* RunIncrementalBackup is called.
StartIncremental ==
    /\ pc = "idle"
    /\ \E pd \in PrefixChoices : prefixDigits' = pd
    /\ mode' = "incremental"
    /\ pc' = "load"
    /\ runs' = runs + 1
    /\ result' = NewResult
    /\ UNCHANGED <<chunk, remote, oldMetadata, fileTree, groups, idx,
                   checksums, err, calls, attempts, diskOps, touched, quiet,
                   prev>>
    /\ UNCHANGED <<call, temp, ctxDone, frame>>

\* Step 1 of RunIncrementalBackup, first storage call of
\* loadRemoteMetadata: FileExists answers, or fails.  With the context
\* done rclone lsf cannot succeed, but it can still fail with a text that
\* contains "not found": exec.Cmd.Start returns the error of looking up
\* the binary ("executable file not found in $PATH") before it looks at
\* the context.
LoadRemoteMetadata ==
    /\ pc = "load"
    /\ \E fault \in (IF ctxDone THEN {"exists", "not_found"}
                      ELSE {"none", "exists", "not_found"}) :
          LET r == loadRemoteMetadata(remote, fault)
          IN IF r.err # ""
             THEN Fail(r.err)
             ELSE pc' = "download" /\ UNCHANGED err
    /\ UNCHANGED <<chunk, remote, mode, prefixDigits, oldMetadata, fileTree,
                   groups, idx, checksums, result, calls, attempts, runs,
                   diskOps, touched, quiet, prev>>
    /\ UNCHANGED <<call, temp, ctxDone, frame>>

\* Second storage call of loadRemoteMetadata, after FileExists answered
\* true: GetFileContent and json.Unmarshal of what it returned.
DownloadMetadata ==
    /\ pc = "download"
    /\ \E fault \in (IF ctxDone THEN {"download"}
                      ELSE {"none", "download", "parse"}) :
          LET r == loadRemoteMetadata(remote, fault)
          IN IF r.err # ""
             THEN Fail(r.err) /\ UNCHANGED oldMetadata
             ELSE /\ oldMetadata' = r.metadata
                  /\ pc' = "scan"
                  /\ UNCHANGED err
    /\ UNCHANGED <<chunk, remote, mode, prefixDigits, fileTree, groups, idx,
                   checksums, result, calls, attempts, runs, diskOps,
                   touched, quiet, prev>>
    /\ UNCHANGED <<call, temp, ctxDone, frame>>

\* scanner.ScanFileTree, the first read of the chunk directory.
Scan ==
    /\ pc = "scan"
    /\ \E fault \in {"none", "scan"} :
          IF fault = "scan"
          THEN Fail(IF mode = "full" THEN "failed to scan file tree"
                    ELSE "failed to scan current file tree")
                 /\ UNCHANGED <<fileTree, touched, quiet>>
          ELSE /\ fileTree' = ScanFileTree(chunk)
               /\ pc' = "list"
               /\ quiet' = (prev.persisted /\ ~touched)
               /\ touched' = FALSE
               /\ UNCHANGED err
    /\ UNCHANGED <<chunk, remote, mode, prefixDigits, oldMetadata, groups,
                   idx, checksums, result, calls, attempts, runs, diskOps,
                   prev>>
    /\ UNCHANGED <<call, temp, ctxDone, frame>>

\* GroupingDigits taking the configured value in every run.
GroupingDigits_configured == prefixDigits

\* The prefixDigits a run groups by and writes into its metadata: the
\* configured value in RunFullBackup, the stored one in
\* RunIncrementalBackup.
GroupingDigits ==
    IF mode = "full" THEN prefixDigits ELSE oldMetadata.PrefixDigits

\* scanner.GetChunkDirectories, the second read of the chunk directory,
\* followed by CompareFileTrees, GenerateArchiveGroups, MarkGroupsForUpdate
\* and the initialisation of the checksums map.
ListAndGroup ==
    /\ pc = "list"
    /\ \E fault \in {"none", "list"} :
          LET gen == GenerateArchiveGroups(GetChunkDirectories(chunk),
                                           GroupingDigits)
              changedDirs == CompareFileTrees(oldMetadata.FileTree, fileTree)
          IN IF fault = "list"
             THEN Fail("failed to get chunk directories")
                    /\ UNCHANGED <<groups, idx, checksums>>
             ELSE IF gen.err # ""
             THEN Fail("failed to generate archive groups")
                    /\ UNCHANGED <<groups, idx, checksums>>
             ELSE /\ groups' = IF mode = "full" THEN gen.groups
                               ELSE MarkGroupsForUpdate(gen.groups, changedDirs)
                  /\ checksums' = IF mode = "full" THEN EmptyMap
                                  ELSE oldMetadata.Checksums
                  /\ idx' = 1
                  /\ pc' = "process"
                  /\ UNCHANGED err
    /\ UNCHANGED <<chunk, remote, mode, prefixDigits, oldMetadata, fileTree,
                   result, calls, attempts, runs, diskOps, touched, quiet,
                   prev>>
    /\ UNCHANGED <<call, temp, ctxDone, frame>>

\* The value stored under k in m, or "absent".
Lookup(m, k) == IF k \in DOMAIN m THEN [present |-> TRUE, value |-> m[k]]
                ELSE [present |-> FALSE]

\* The outcomes of a call to the storage: once the context is done,
\* exec.CommandContext fails every rclone command.
StorageFaults(done, fault) == IF done THEN {fault} ELSE {"none", fault}

\* CreateArchive goes on to member k of the group, or returns the path of
\* the archive when the members are used up.
toMember(fr, dirs, k) ==
    [fr EXCEPT !.member = k,
               !.at = IF k > Len(dirs) THEN "hash" ELSE "stat",
               !.built = k > Len(dirs)]

\* processArchiveGroup returns e to the loop of RunFullBackup or
\* RunIncrementalBackup, which records the error and goes on to the next
\* group; fr is the activation that returns and res the result as the
\* call leaves it.
EndGroup(res, e, fr) ==
    LET name == groups[idx].ArchiveName
    IN /\ result' = recordGroupError(res, name, e)
       /\ checksums' = updateChecksums(checksums, name, fr.checksum, e)
       /\ attempts' = Append(attempts,
            [name |-> name, remoteBefore |-> fr.remoteBefore,
             before |-> fr.before, processed |-> TRUE,
             failed |-> fr.failed, err |-> e, built |-> fr.built,
             hashed |-> fr.hashed, archive |-> fr.archive,
             checksum |-> fr.checksum, tried |-> fr.tried,
             ctxDoneAtStart |-> fr.ctxDoneAtStart])
       /\ idx' = idx + 1
       /\ frame' = NoFrame

\* fr with the step added to the steps that failed.
Failing(fr, step) == [fr EXCEPT !.failed = @ \cup {step}]

\* The head of the loop over the groups (step 4 of RunFullBackup, step 7
\* of RunIncrementalBackup): an unmarked group of an incremental run is
\* counted as skipped; for the others processArchiveGroup is called and
\* CreateArchive creates the scratch archive with os.Create, or fails to.
\* The loop does not look at the context.
StartGroup ==
    /\ pc = "process"
    /\ frame = NoFrame
    /\ idx <= Len(groups)
    /\ LET group == groups[idx]
           name == group.ArchiveName
           fr == [at |-> "stat", member |-> 1, archive |-> << >>,
                  checksum |-> "", failed |-> {}, built |-> FALSE,
                  hashed |-> FALSE, tried |-> FALSE,
                  remoteBefore |-> Lookup(remote,
                      Join(RemotePath, name \o Sha256Suffix)),
                  before |-> Lookup(checksums, name),
                  ctxDoneAtStart |-> ctxDone, diskOps |-> diskOps]
       IN IF ShouldProcess(mode, group)
          THEN \E fault \in {"none", "create_archive"} :
                 IF fault = "create_archive"
                 THEN /\ EndGroup(result, "failed to create archive",
                                  Failing(fr, "create_archive"))
                      /\ UNCHANGED temp
                 ELSE /\ frame' = fr
                      /\ temp' = temp \cup {name}
                      /\ UNCHANGED <<result, checksums, attempts, idx>>
          ELSE /\ result' = [result EXCEPT
                                !.SkippedArchives = @ + 1,
                                !.Details = Put(@, name, "unchanged, skipped")]
               /\ attempts' = Append(attempts,
                    [name |-> name, remoteBefore |-> fr.remoteBefore,
                     before |-> fr.before, processed |-> FALSE,
                     failed |-> {}, err |-> "", built |-> FALSE,
                     hashed |-> FALSE, archive |-> << >>, checksum |-> "",
                     tried |-> FALSE, ctxDoneAtStart |-> ctxDone])
               /\ idx' = idx + 1
               /\ UNCHANGED <<checksums, temp, frame>>
    /\ UNCHANGED <<chunk, remote, pc, mode, prefixDigits, oldMetadata,
                   fileTree, groups, err, calls, runs, diskOps, touched,
                   quiet, prev>>
    /\ UNCHANGED <<call, ctxDone>>

\* CreateArchive, os.Stat of the member at hand: a member that is missing
\* is skipped, the others are walked next.
StatMember ==
    /\ pc = "process"
    /\ frame.at = "stat"
    /\ LET dirs == groups[idx].Directories
           d == dirs[frame.member]
       IN frame' = IF d \notin DOMAIN chunk \/ chunk[d].Kind = "none"
                   THEN toMember(frame, dirs, afterMissing(dirs, frame.member))
                   ELSE [frame EXCEPT !.at = "walk"]
    /\ UNCHANGED <<chunk, remote, pc, runVars, runs, diskOps, touched, quiet,
                   prev>>
    /\ UNCHANGED <<call, temp, ctxDone>>

\* CreateArchive, addDirectoryToTar of the member at hand, taken as one
\* read of the member's subtree.  It fails when the member has been
\* removed since os.Stat saw it ("member_removed": filepath.Walk hands
\* the error of its lstat to the callback, which returns it), or when an
\* entry cannot be read or written ("add_directory"); CreateArchive then returns without removing the scratch
\* archive, and processArchiveGroup has not registered its removal yet.
WalkMember ==
    /\ pc = "process"
    /\ frame.at = "walk"
    /\ LET dirs == groups[idx].Directories
           d == dirs[frame.member]
       IN \E fault \in {"none", "add_directory"} :
            IF chunk[d].Kind = "none"
            THEN EndGroup(result, "failed to create archive",
                          Failing(frame, "member_removed"))
            ELSE IF fault = "add_directory"
            THEN EndGroup(result, "failed to create archive",
                          Failing(frame, "add_directory"))
            ELSE /\ frame' = toMember(
                       [frame EXCEPT !.archive =
                           Append(@, [Name |-> d,
                                      Tree |-> addDirectoryToTar(chunk[d])])],
                       dirs, frame.member + 1)
                 /\ UNCHANGED <<result, checksums, attempts, idx>>
    /\ UNCHANGED <<chunk, remote, pc, mode, prefixDigits, oldMetadata,
                   fileTree, groups, err, calls, runs, diskOps, touched,
                   quiet, prev>>
    /\ UNCHANGED <<call, temp, ctxDone>>

\* processArchiveGroup, step 2: CalculateChecksum of the scratch archive.
\* From here on the deferred os.Remove(archivePath) runs on every return.
Hash ==
    /\ pc = "process"
    /\ frame.at = "hash"
    /\ LET name == groups[idx].ArchiveName
       IN \E fault \in {"none", "checksum"} :
            IF fault = "checksum"
            THEN /\ EndGroup(result, "failed to calculate checksum",
                             Failing(frame, "checksum"))
                 /\ temp' = temp \ {name}
            ELSE /\ frame' = [frame EXCEPT
                                 !.checksum = CalculateChecksum(frame.archive),
                                 !.hashed = TRUE, !.at = "cat"]
                 /\ UNCHANGED <<result, checksums, attempts, idx, temp>>
    /\ UNCHANGED <<chunk, remote, pc, mode, prefixDigits, oldMetadata,
                   fileTree, groups, err, calls, runs, diskOps, touched,
                   quiet, prev>>
    /\ UNCHANGED <<call, ctxDone>>

\* processArchiveGroup, step 3: getRemoteChecksum (rclone cat) and the
\* comparison.  A record that cannot be read only makes the upload needed;
\* when the record holds the computed hash the group is counted as skipped
\* and processArchiveGroup returns nil.
GetRemoteChecksum ==
    /\ pc = "process"
    /\ frame.at = "cat"
    /\ LET name == groups[idx].ArchiveName
           remoteSha256Path == Join(RemotePath, name \o Sha256Suffix)
       IN \E fault \in StorageFaults(ctxDone, "get_remote_checksum") :
            LET rc == getRemoteChecksum(remote, remoteSha256Path, fault)
                fr == IF fault = "none" \/ remoteSha256Path \notin DOMAIN remote
                      THEN frame
                      ELSE Failing(frame, "get_remote_checksum")
            IN IF needsUploadOf(rc, frame.checksum)
               THEN /\ frame' = [fr EXCEPT !.at = "upload_archive"]
                    /\ UNCHANGED <<result, checksums, attempts, idx, temp>>
               ELSE /\ EndGroup([result EXCEPT
                                    !.SkippedArchives = @ + 1,
                                    !.Details = Put(@, name,
                                        "checksum unchanged, skipped")],
                                "", fr)
                    /\ temp' = temp \ {name}
    /\ UNCHANGED <<chunk, remote, pc, mode, prefixDigits, oldMetadata,
                   fileTree, groups, err, calls, runs, diskOps, touched,
                   quiet, prev>>
    /\ UNCHANGED <<call, ctxDone>>

\* processArchiveGroup, step 4: UploadFile of the archive (rclone copyto)
\* and the append to UploadedFiles.
UploadArchive ==
    /\ pc = "process"
    /\ frame.at = "upload_archive"
    /\ LET name == groups[idx].ArchiveName
           remoteArchivePath == Join(RemotePath, name)
           fr == [frame EXCEPT !.tried = TRUE]
       IN \E fault \in StorageFaults(ctxDone, "upload_archive") :
            LET uploaded == fault = "none"
                res == recordArchiveUpload(result, name, TRUE, uploaded)
            IN /\ calls' = Append(calls, [path |-> remoteArchivePath,
                                          ok |-> uploaded])
               /\ IF uploaded
                  THEN /\ remote' = Put(remote, remoteArchivePath,
                                        frame.archive)
                       /\ result' = res
                       /\ frame' = [fr EXCEPT !.at = "checksum_file"]
                       /\ UNCHANGED <<checksums, attempts, idx, temp>>
                  ELSE /\ EndGroup(res, "failed to upload archive",
                                   Failing(fr, "upload_archive"))
                       /\ temp' = temp \ {name}
                       /\ UNCHANGED remote
    /\ UNCHANGED <<chunk, pc, mode, prefixDigits, oldMetadata, fileTree,
                   groups, err, runs, diskOps, touched, quiet, prev>>
    /\ UNCHANGED <<call, ctxDone>>

\* processArchiveGroup, step 5, first half: CreateChecksumFile.  It fails
\* in os.Create ("create_checksum_file") or in file.WriteString
\* ("write_checksum_file"), which leaves the file; the removal of the
\* checksum file is registered only after CreateChecksumFile has returned
\* its path.
WriteChecksumFile ==
    /\ pc = "process"
    /\ frame.at = "checksum_file"
    /\ LET name == groups[idx].ArchiveName
       IN \E fault \in {"none", "create_checksum_file",
                         "write_checksum_file"} :
            IF fault = "none"
            THEN /\ frame' = [frame EXCEPT !.at = "upload_checksum"]
                 /\ temp' = temp \cup {name \o Sha256Suffix}
                 /\ UNCHANGED <<result, checksums, attempts, idx>>
            ELSE /\ EndGroup(result, "failed to create checksum file",
                             Failing(frame, fault))
                 /\ temp' = IF fault = "write_checksum_file"
                            THEN (temp \ {name}) \cup {name \o Sha256Suffix}
                            ELSE temp \ {name}
    /\ UNCHANGED <<chunk, remote, pc, mode, prefixDigits, oldMetadata,
                   fileTree, groups, err, calls, runs, diskOps, touched,
                   quiet, prev>>
    /\ UNCHANGED <<call, ctxDone>>

\* processArchiveGroup, step 5, second half: UploadFile of the checksum
\* file, the counters of the result and the entry of the checksums map.
UploadChecksum ==
    /\ pc = "process"
    /\ frame.at = "upload_checksum"
    /\ LET name == groups[idx].ArchiveName
           remoteSha256Path == Join(RemotePath, name \o Sha256Suffix)
       IN \E fault \in StorageFaults(ctxDone, "upload_checksum") :
            LET uploaded == fault = "none"
            IN /\ calls' = Append(calls, [path |-> remoteSha256Path,
                                          ok |-> uploaded])
               /\ temp' = temp \ {name, name \o Sha256Suffix}
               /\ IF uploaded
                  THEN /\ remote' = Put(remote, remoteSha256Path,
                              CreateChecksumFile(name, frame.checksum))
                       /\ EndGroup([result EXCEPT
                               !.UploadedFiles =
                                   Append(@, name \o Sha256Suffix),
                               !.UpdatedArchives = @ + 1,
                               !.Details = Put(@, name, "created and uploaded")],
                             "", frame)
                  ELSE /\ EndGroup(result, "failed to upload checksum file",
                                   Failing(frame, "upload_checksum"))
                       /\ UNCHANGED remote
    /\ UNCHANGED <<chunk, pc, mode, prefixDigits, oldMetadata, fileTree,
                   groups, err, runs, diskOps, touched, quiet, prev>>
    /\ UNCHANGED <<call, ctxDone>>

\* NewMetadata carrying the snapshot of the prior metadata.
NewMetadata_priorSnapshot ==
    [Version |-> MetadataVersion, PrefixDigits |-> GroupingDigits,
     FileTree |-> oldMetadata.FileTree, Checksums |-> checksums]

\* The metadata document a run assembles after the loop.
NewMetadata ==
    [Version |-> MetadataVersion, PrefixDigits |-> GroupingDigits,
     FileTree |-> fileTree, Checksums |-> checksums]

\* backup.saveAndUploadMetadata and the return of the result.  The local
\* copy written to Config.TempPath is kept; os.WriteFile fails before it
\* has created the file ("create") or after ("write"); the upload is given
\* the context.
Persist ==
    /\ pc = "process"
    /\ idx > Len(groups)
    /\ \E fault \in (IF ctxDone THEN {"create", "write", "upload"}
                      ELSE {"none", "create", "write", "upload"}) :
          IF fault = "create"
          THEN Fail("failed to save metadata")
                 /\ UNCHANGED <<remote, calls, result, temp>>
          ELSE IF fault = "write"
          THEN /\ Fail("failed to save metadata")
               /\ temp' = temp \cup {MetadataFileName}
               /\ UNCHANGED <<remote, calls, result>>
          ELSE IF fault = "upload"
          THEN /\ Fail("failed to save metadata")
               /\ calls' = Append(calls, [path |-> MetadataPath, ok |-> FALSE])
               /\ temp' = temp \cup {MetadataFileName}
               /\ UNCHANGED <<remote, result>>
          ELSE /\ remote' = Put(remote, MetadataPath, NewMetadata)
               /\ calls' = Append(calls, [path |-> MetadataPath, ok |-> TRUE])
               /\ temp' = temp \cup {MetadataFileName}
               /\ result' = [result EXCEPT !.TotalArchives = Len(groups)]
               /\ pc' = "done"
               /\ UNCHANGED err
    /\ UNCHANGED <<chunk, mode, prefixDigits, oldMetadata, fileTree, groups,
                   idx, checksums, attempts, runs, diskOps, touched, quiet,
                   prev>>
    /\ UNCHANGED <<call, ctxDone, frame>>

\* The caller takes the result or the error; the manager is ready for the
\* next run, which is given a context of its own.
Return ==
    /\ pc \in {"done", "failed"}
    /\ pc' = "idle"
    /\ prev' = IF pc = "done"
               THEN [persisted |-> TRUE,
                     failed |-> Range(result.ErrorArchives), mode |-> mode,
                     diskOps |-> diskOps]
               ELSE [persisted |-> FALSE, failed |-> {}, mode |-> mode,
                     diskOps |-> diskOps]
    /\ oldMetadata' = NoMetadata
    /\ fileTree' = EmptyMap
    /\ groups' = << >>
    /\ idx' = 0
    /\ checksums' = EmptyMap
    /\ result' = NewResult
    /\ err' = ""
    /\ calls' = << >>
    /\ attempts' = << >>
    /\ quiet' = FALSE
    /\ mode' = "full"
    /\ prefixDigits' = 0
    /\ ctxDone' = FALSE
    /\ UNCHANGED <<chunk, remote, runs, diskOps, touched>>
    /\ UNCHANGED <<call, temp, frame>>

Next ==
    \/ ModifyShard
    \/ (runs < MaxRuns /\ StartFull)
    \/ (runs < MaxRuns /\ StartIncremental)
    \/ LoadRemoteMetadata
    \/ DownloadMetadata
    \/ Scan
    \/ ListAndGroup
    \/ StartGroup
    \/ StatMember
    \/ WalkMember
    \/ Hash
    \/ GetRemoteChecksum
    \/ UploadArchive
    \/ WriteChecksumFile
    \/ UploadChecksum
    \/ Persist
    \/ Return

Spec == Init /\ [][Next]_vars

\* ------------------------------------------------------------------------
\* Runs over a remote that other writers use, and runs of a manager whose
\* configuration buildConfig has not validated
\* ------------------------------------------------------------------------

\* Config.PrefixDigits values outside 1..4.
OutOfRangeChoices == {0, 5}

\* RunFullBackup is called on a manager built by NewBackupManager with a
\* PrefixDigits outside 1..4.
StartFullOutOfRange == StartFullWith(OutOfRangeChoices)

\* The metadata documents another writer may leave in place of document m:
\* one of a later schema version, one with a prefix_digits outside 1..4.
ForeignDocuments(m) ==
    {[m EXCEPT !.Version = MetadataVersion + 1]}
        \cup {[m EXCEPT !.PrefixDigits = pd] : pd \in OutOfRangeChoices}

\* Between two runs, or between the two storage calls of
\* loadRemoteMetadata, another writer replaces the metadata document that
\* a run of this program stored.
ForeignMetadata ==
    /\ pc \in {"idle", "download"}
    /\ MetadataPath \in DOMAIN remote
    /\ remote[MetadataPath].Version = MetadataVersion
    /\ validPrefixDigits(remote[MetadataPath].PrefixDigits)
    /\ \E doc \in ForeignDocuments(remote[MetadataPath]) :
          remote' = [remote EXCEPT ![MetadataPath] = doc]
    /\ UNCHANGED <<chunk, pc, runVars, runs, diskOps, touched, quiet, prev,
                   call, temp, ctxDone, frame>>

NextForeign ==
    \/ ForeignMetadata
    \/ (runs < MaxForeignRuns /\ StartFullOutOfRange)
    \/ (runs < MaxForeignRuns /\ StartFull)
    \/ (runs < MaxForeignRuns /\ StartIncremental)
    \/ ModifyShard
    \/ LoadRemoteMetadata
    \/ DownloadMetadata
    \/ Scan
    \/ ListAndGroup
    \/ StartGroup
    \/ StatMember
    \/ WalkMember
    \/ Hash
    \/ GetRemoteChecksum
    \/ UploadArchive
    \/ WriteChecksumFile
    \/ UploadChecksum
    \/ Persist
    \/ Return

SpecForeign == Init /\ [][NextForeign]_vars

\* ------------------------------------------------------------------------
\* Runs whose context ends before they return
\* ------------------------------------------------------------------------

\* cmd.runBackup gives the run a context.WithTimeout: the deadline passes
\* (or the caller cancels) at any point of the run.
Deadline ==
    /\ pc \in {"load", "download", "scan", "list", "process"}
    /\ ~ctxDone
    /\ ctxDone' = TRUE
    /\ UNCHANGED <<chunk, remote, pc, runVars, runs, diskOps, touched, quiet,
                   prev, call, temp, frame>>

NextFaults ==
    \/ Deadline
    \/ (runs < MaxFaultRuns /\ StartFull)
    \/ (runs < MaxFaultRuns /\ StartIncremental)
    \/ LoadRemoteMetadata
    \/ DownloadMetadata
    \/ Scan
    \/ ListAndGroup
    \/ StartGroup
    \/ StatMember
    \/ WalkMember
    \/ Hash
    \/ GetRemoteChecksum
    \/ UploadArchive
    \/ WriteChecksumFile
    \/ UploadChecksum
    \/ Persist
    \/ Return

SpecFaults == Init /\ [][NextFaults]_vars

\* ------------------------------------------------------------------------
\* The schedule of the integration test: a full backup, then incremental
\* backups
\* ------------------------------------------------------------------------

NextSchedule ==
    \/ ModifyShard
    \/ (runs = 0 /\ StartFull)
    \/ (runs \in 1..(MaxScheduleRuns - 1) /\ StartIncremental)
    \/ LoadRemoteMetadata
    \/ DownloadMetadata
    \/ Scan
    \/ ListAndGroup
    \/ StartGroup
    \/ StatMember
    \/ WalkMember
    \/ Hash
    \/ GetRemoteChecksum
    \/ UploadArchive
    \/ WriteChecksumFile
    \/ UploadChecksum
    \/ Persist
    \/ Return

SpecSchedule == Init /\ [][NextSchedule]_vars

\* ------------------------------------------------------------------------
\* The package functions called on their own, as the unit tests call them
\* ------------------------------------------------------------------------

\* Names handed to GenerateArchiveGroups: shard names, one in upper case,
\* and names that are not shard names (not hexadecimal, too short, too
\* long).
DirNames ==
    {<<"0", "0", "0", "0">>, <<"0", "0", "0", "1">>, <<"0", "0", "f", "f">>,
     <<"0", "1", "0", "0">>, <<"0", "1", "a", "a">>, <<"a", "b", "c", "d">>,
     <<"f", "f", "f", "f">>, <<"0", "0", "A", "B">>,
     <<"t", "e", "s", "t">>, <<"a", "b", "c">>,
     <<"0", "0", "0", "0", "0">>}

\* The directories of the first case of TestArchiveGrouping.
ExampleDirs ==
    <<<<"0", "0", "0", "0">>, <<"0", "0", "0", "1">>, <<"0", "0", "f", "f">>,
      <<"0", "1", "0", "0">>, <<"0", "1", "a", "a">>, <<"a", "b", "c", "d">>,
      <<"f", "f", "f", "f">>>>

\* The lists handed to GenerateArchiveGroups, in any order and with
\* repetitions.
DirLists ==
    UNION {[1..n -> DirNames] : n \in 0..MaxDirs} \cup {ExampleDirs}

\* The prefixDigits handed to GenerateArchiveGroups.
PrefixArgs == 0..5

\* Everything but call.
systemVars ==
    <<chunk, remote, pc, mode, prefixDigits, oldMetadata, fileTree, groups,
      idx, checksums, result, err, calls, attempts, runs, diskOps, touched,
      quiet, prev, temp, ctxDone, frame>>

\* archiver.GenerateArchiveGroups is called.
CallGenerateArchiveGroups ==
    /\ call = NoCall
    /\ \E directories \in DirLists, pd \in PrefixArgs :
          call' = [fn |-> "GenerateArchiveGroups",
                   directories |-> directories, prefixDigits |-> pd,
                   out |-> GenerateArchiveGroups(directories, pd)]
    /\ UNCHANGED systemVars

\* What a shard holds in the snapshots handed to CompareFileTrees.  Beside
\* the contents of the runs: the file under another name, two files, an
\* empty directory or an empty file under the same name, the shard with
\* another modification time, and directories that differ two levels down.
OtherName == <<"g">>

ContentG == Dir(Time(1, 0), [n \in {OtherName} |-> File(1, Time(1, 0), "a")])

ContentFG ==
    Dir(Time(1, 0), [n \in {FileName, OtherName} |-> File(1, Time(1, 0), "a")])

ContentEmptyDir == Dir(Time(1, 0), [n \in {FileName} |-> Dir(Time(1, 0), EmptyMap)])

ContentEmptyFile == Dir(Time(1, 0), [n \in {FileName} |-> File(0, Time(1, 0), "")])

ContentLater == Dir(Time(2, 0), [n \in {FileName} |-> File(1, Time(1, 0), "a")])

ContentDeepF == Dir(Time(1, 0), [n \in {FileName} |-> ContentA])

ContentDeepG == Dir(Time(1, 0), [n \in {FileName} |-> ContentG])

TreeContents ==
    {ContentA, ContentB, ContentA2, ContentG, ContentFG, ContentEmptyDir,
     ContentEmptyFile, ContentLater, ContentDeepF, ContentDeepG}

\* The snapshots handed to CompareFileTrees: what ScanFileTree returns for
\* a chunk directory in which each shard is absent or holds one of the
\* contents.
Snapshots ==
    {ScanFileTree(disk) : disk \in [Shards -> TreeContents \cup {NoEntry}]}

\* scanner.CompareFileTrees is called.
CallCompareFileTrees ==
    /\ call = NoCall
    /\ \E oldTree \in Snapshots, newTree \in Snapshots :
          call' = [fn |-> "CompareFileTrees", oldTree |-> oldTree,
                   newTree |-> newTree,
                   out |-> CompareFileTrees(oldTree, newTree)]
    /\ UNCHANGED systemVars

\* Entry names under the chunk root handed to the scanner: shard names in
\* lower, upper and mixed case, and names that are not shard names.
EntryNames ==
    {<<"0", "0", "0", "0">>, <<"0", "0", "A", "B">>, <<"a", "b", "C", "d">>,
     <<"t", "e", "s", "t">>, <<"a", "b", "c">>, <<"0", "0", "0", "0", "0">>}

\* What an entry under the chunk root is: nothing, a regular file, or a
\* directory: empty, holding one file, two files, an empty directory, or a
\* directory that holds a file.
EntryKinds ==
    {NoEntry, File(1, Time(1, 0), "a"), Dir(Time(1, 0), EmptyMap), ContentA,
     ContentFG, ContentEmptyDir, ContentDeepF}

\* scanner.ScanFileTree and scanner.GetChunkDirectories are called on a
\* chunk directory that does not change between the two.
CallScanner ==
    /\ call = NoCall
    /\ \E disk \in [EntryNames -> EntryKinds] :
          call' = [fn |-> "Scanner", disk |-> disk,
                   fileTree |-> ScanFileTree(disk),
                   directories |-> GetChunkDirectories(disk)]
    /\ UNCHANGED systemVars

\* The caller takes what the function returned.
CallReturn ==
    /\ call # NoCall
    /\ call' = NoCall
    /\ UNCHANGED systemVars

NextCalls ==
    \/ CallGenerateArchiveGroups
    \/ CallCompareFileTrees
    \/ CallScanner
    \/ CallReturn

SpecCalls == Init /\ [][NextCalls]_vars

\* ------------------------------------------------------------------------
\* Properties
\* ------------------------------------------------------------------------

\* The run has entered the loop over its groups.
InLoop == pc \in {"process", "done"} \/ (pc = "failed" /\ idx >= 1)

\* The checksum recorded for an archive name before the run.
Prior(name) ==
    IF mode = "incremental" THEN Lookup(oldMetadata.Checksums, name)
    ELSE [present |-> FALSE]

\* The names, in loop order, of the groups whose processing failed.
RECURSIVE FailedNames(_)
FailedNames(as) ==
    IF as = << >> THEN << >>
    ELSE (IF Head(as).err # "" THEN <<Head(as).name>> ELSE << >>)
            \o FailedNames(Tail(as))

\* C1: a failure while processing a group is recorded under the group's
\* archive name in ErrorArchives and Details and does not stop the run:
\* the loop passes every group, every group that should be processed is
\* attempted, only the metadata step can still fail the run, and a run
\* that returns a result has persisted its metadata document.
C1_GroupFailureIsolated ==
    InLoop =>
      /\ Len(attempts) = idx - 1
      /\ idx <= Len(groups) + 1
      /\ \A i \in 1..Len(attempts) :
            /\ attempts[i].name = groups[i].ArchiveName
            /\ attempts[i].processed = (mode = "full" \/ groups[i].NeedsUpdate)
            /\ attempts[i].err # "" =>
                  /\ attempts[i].name \in DOMAIN result.Details
                  /\ result.Details[attempts[i].name] = attempts[i].err
      /\ result.ErrorArchives = FailedNames(attempts)
      /\ pc = "failed" =>
            /\ err = "failed to save metadata"
            /\ Len(attempts) = Len(groups)
      /\ pc = "done" =>
            /\ Len(attempts) = Len(groups)
            /\ MetadataPath \in DOMAIN remote
            /\ remote[MetadataPath].FileTree = fileTree

\* C1 witness: a run returned its result after the first of two groups
\* failed and the second was processed without error.
C1_Witness ==
    /\ pc = "done"
    /\ Len(attempts) = 2
    /\ attempts[1].err # ""
    /\ attempts[2].processed /\ attempts[2].err = "" /\ attempts[2].tried

\* C2: the persisted Checksums entry of a group whose processing failed is
\* the entry from before the run: the prior metadata's entry in an
\* incremental run, absent in a full run.
C2_FailedChecksumUnchanged ==
    pc = "done" =>
      \A i \in 1..Len(attempts) :
         attempts[i].err # "" =>
            /\ Lookup(remote[MetadataPath].Checksums, attempts[i].name)
                  = Prior(attempts[i].name)
            /\ mode = "full" =>
                  attempts[i].name \notin DOMAIN remote[MetadataPath].Checksums

\* C2 witness: an incremental run persisted its metadata after a group with
\* a prior checksum failed once a different hash had been computed.
C2_Witness ==
    /\ pc = "done"
    /\ mode = "incremental"
    /\ \E i \in 1..Len(attempts) :
          /\ attempts[i].err # ""
          /\ attempts[i].hashed
          /\ Prior(attempts[i].name).present
          /\ Prior(attempts[i].name).value # attempts[i].checksum

\* The members of a group that CompareFileTrees reports as changed.
ChangedMembers(group) ==
    Range(group.Directories)
        \cap CompareFileTrees(oldMetadata.FileTree, fileTree)

\* The UploadFile calls a run made for an archive name.
CallsFor(name) ==
    {i \in 1..Len(calls) :
        calls[i].path \in {Join(RemotePath, name),
                           Join(RemotePath, name \o Sha256Suffix)}}

\* C3: in an incremental run a group is marked NeedsUpdate exactly if one
\* of its members is in the changed set; an unmarked group is counted as
\* skipped, is neither rebuilt nor uploaded, and keeps its prior checksum
\* entry in the new metadata.
C3_DirtyIffMemberChanged ==
    (mode = "incremental" /\ pc \in {"process", "done"}) =>
      /\ \A i \in 1..Len(groups) :
            groups[i].NeedsUpdate <=> ChangedMembers(groups[i]) # {}
      /\ \A i \in 1..Len(attempts) :
            ~groups[i].NeedsUpdate =>
               /\ ~attempts[i].processed /\ ~attempts[i].built
               /\ CallsFor(groups[i].ArchiveName) = {}
               /\ result.Details[groups[i].ArchiveName] = "unchanged, skipped"
               /\ Lookup(checksums, groups[i].ArchiveName)
                     = Prior(groups[i].ArchiveName)
               /\ pc = "done" =>
                     Lookup(remote[MetadataPath].Checksums,
                            groups[i].ArchiveName)
                        = Prior(groups[i].ArchiveName)
      /\ result.SkippedArchives =
            Cardinality({i \in 1..Len(attempts) :
                            \/ ~groups[i].NeedsUpdate
                            \/ attempts[i].hashed /\ ~attempts[i].tried})

\* C3 witness: an incremental run returned after processing a marked group
\* and skipping an unmarked group that has a prior checksum.
C3_Witness ==
    /\ pc = "done"
    /\ mode = "incremental"
    /\ \E i, j \in 1..Len(groups) :
          /\ groups[i].NeedsUpdate /\ attempts[i].built
          /\ ~groups[j].NeedsUpdate
          /\ Prior(groups[j].ArchiveName).present

\* The attempts of the run that reached the comparison of hashes.
Compared == {i \in 1..Len(attempts) : attempts[i].hashed}

\* The remote checksum record of attempt i was read and holds the hash the
\* attempt computed.
RemoteRecordMatches(i) ==
    /\ "get_remote_checksum" \notin attempts[i].failed
    /\ attempts[i].remoteBefore.present
    /\ Len(attempts[i].remoteBefore.value) >= 1
    /\ attempts[i].remoteBefore.value[1] = attempts[i].checksum

\* C4 as claimed: a marked group of an incremental run is uploaded exactly
\* if the hash of the rebuilt archive differs from the checksum recorded
\* for it in the prior metadata, or none is recorded there.
C4_UploadIffDiffersFromPriorMetadata ==
    (mode = "incremental" /\ InLoop) =>
      \A i \in Compared :
         attempts[i].tried <=>
            (~Prior(attempts[i].name).present
             \/ Prior(attempts[i].name).value # attempts[i].checksum)

\* C4 amended: a processed group is uploaded exactly if the hash of the
\* rebuilt archive differs from the digest in the group's remote checksum
\* record, or that record cannot be read; when they are equal nothing is
\* uploaded for the group, it is counted as skipped, and the computed hash
\* is recorded in the new metadata's Checksums.
C4_UploadIffDiffersFromRemoteRecord ==
    InLoop =>
      \A i \in Compared :
         /\ attempts[i].tried <=> ~RemoteRecordMatches(i)
         /\ ~attempts[i].tried =>
               /\ attempts[i].err = ""
               /\ CallsFor(attempts[i].name) = {}
               /\ result.Details[attempts[i].name]
                     = "checksum unchanged, skipped"
               /\ result.SkippedArchives >=
                     Cardinality({j \in Compared : ~attempts[j].tried})
               /\ checksums[attempts[i].name] = attempts[i].checksum
               /\ pc = "done" =>
                     remote[MetadataPath].Checksums[attempts[i].name]
                        = attempts[i].checksum

\* C4 witness: an incremental run returned after a marked group was rebuilt
\* to the hash of its remote checksum record and not uploaded.
C4_Witness ==
    /\ pc = "done"
    /\ mode = "incremental"
    /\ \E i \in Compared :
          /\ groups[i].NeedsUpdate
          /\ RemoteRecordMatches(i)
          /\ ~attempts[i].tried

\* C5 as claimed: every Checksums entry of the metadata document a run
\* persisted is the hash of the archive stored remotely under that name.
C5_ChecksumsMatchRemoteArchives ==
    pc = "done" =>
      \A a \in DOMAIN remote[MetadataPath].Checksums :
         /\ Join(RemotePath, a) \in DOMAIN remote
         /\ remote[MetadataPath].Checksums[a]
               = CalculateChecksum(remote[Join(RemotePath, a)])

\* The UploadFile calls of the run for the metadata document.
MetadataCalls == {i \in 1..Len(calls) : calls[i].path = MetadataPath}

\* The Checksums entry a run accumulates for a name: the hash of the
\* group's successful attempt, else the entry from before the run.
Accumulated(name) ==
    IF \E i \in 1..Len(attempts) :
          attempts[i].name = name /\ attempts[i].hashed /\ attempts[i].err = ""
    THEN [present |-> TRUE,
          value |-> attempts[CHOOSE i \in 1..Len(attempts) :
                                attempts[i].name = name].checksum]
    ELSE Prior(name)

\* C6: a run that entered the loop uploads the metadata document at most
\* once, as its last upload and only after the loop has passed every
\* group, whatever the number of failed groups; a run that returns a result
\* has uploaded it exactly once, and the document holds version 1, the
\* snapshot scanned by the run, the prefixDigits the run grouped by and
\* the accumulated checksums.
C6_MetadataOnceAfterGroups ==
    /\ MetadataCalls # {} =>
          /\ MetadataCalls = {Len(calls)}
          /\ pc \in {"done", "failed"}
          /\ Len(attempts) = Len(groups)
          /\ calls[Len(calls)].ok <=> pc = "done"
    /\ pc = "done" =>
          /\ MetadataCalls # {}
          /\ remote[MetadataPath].Version = 1
          /\ remote[MetadataPath].FileTree = fileTree
          /\ remote[MetadataPath].PrefixDigits =
                (IF mode = "full" THEN prefixDigits
                 ELSE oldMetadata.PrefixDigits)
          /\ \A i \in 1..Len(groups) :
                Lookup(remote[MetadataPath].Checksums, groups[i].ArchiveName)
                   = Accumulated(groups[i].ArchiveName)
          /\ \A a \in DOMAIN remote[MetadataPath].Checksums :
                Lookup(remote[MetadataPath].Checksums, a) = Accumulated(a)

\* C6 witness: a run over two groups, one of which failed, returned its
\* result after uploading the metadata document.
C6_Witness ==
    /\ pc = "done"
    /\ Len(groups) = 2
    /\ Len(result.ErrorArchives) = 1
    /\ Len(calls) >= 2
    /\ calls[Len(calls)] = [path |-> MetadataPath, ok |-> TRUE]

\* C7 as claimed: when the previous run persisted its metadata with failed
\* groups and the chunk directory did not change since that run's scan,
\* the next incremental run marks each of those groups for update.
C7_FailedGroupRetried ==
    (mode = "incremental" /\ pc \in {"process", "done"} /\ quiet) =>
      \A a \in prev.failed :
         \E i \in 1..Len(groups) :
            groups[i].ArchiveName = a /\ groups[i].NeedsUpdate

\* C8: in a full run every group is rebuilt and an upload of its archive
\* is attempted, whatever the remote storage holds from earlier runs; a
\* full run in which no group fails reports every group as updated and
\* none as skipped.
C8_FullRunUpdatesAll ==
    /\ (mode = "full" /\ InLoop) =>
          \A i \in 1..Len(attempts) :
             /\ attempts[i].processed
             /\ attempts[i].hashed => attempts[i].tried
    /\ (pc = "done" /\ mode = "full" /\ result.ErrorArchives = << >>) =>
          /\ result.UpdatedArchives = result.TotalArchives
          /\ result.SkippedArchives = 0

\* What C9 promises of an incremental run: no archive is uploaded, no
\* group is processed, and the result reports every group as skipped.
NothingToDo ==
    /\ \A i \in 1..Len(calls) : calls[i].path = MetadataPath
    /\ \A i \in 1..Len(attempts) : ~attempts[i].processed
    /\ pc = "done" =>
          /\ result.UpdatedArchives = 0
          /\ result.SkippedArchives = result.TotalArchives
          /\ result.TotalArchives = Len(groups)
          /\ result.ErrorArchives = << >>
          /\ result.UploadedFiles = << >>

NoPriorBackup == "no previous backup metadata found, use full backup mode"

\* C10: an incremental run started when the remote holds no metadata
\* document fails before scanning, with the no-prior-backup error when the
\* existence check answers: no snapshot, no group, no archive, no upload,
\* and still no metadata document.
C10_NoPriorBackup ==
    (mode = "incremental" /\ pc # "idle" /\ MetadataPath \notin DOMAIN remote) =>
      /\ pc \in {"load", "failed"}
      /\ pc = "failed" =>
            err \in {NoPriorBackup, "failed to check metadata file existence"}
      /\ fileTree = EmptyMap
      /\ groups = << >>
      /\ attempts = << >>
      /\ calls = << >>
      /\ result = NewResult

\* C10 witness: an incremental run failed with the no-prior-backup error.
C10_Witness ==
    /\ pc = "failed"
    /\ mode = "incremental"
    /\ err = NoPriorBackup
    /\ MetadataPath \notin DOMAIN remote

\* The errors of loadRemoteMetadata.
LoadErrors ==
    {NoPriorBackup, "failed to check metadata file existence",
     "failed to download metadata", "failed to parse metadata"}

\* The errors of the steps that precede the loop over the groups.
EarlyErrors ==
    LoadErrors \cup {"failed to scan file tree",
                     "failed to scan current file tree",
                     "failed to get chunk directories",
                     "failed to generate archive groups"}

\* C11: a run returns an error and no result only from a state-level step:
\* the metadata load (incremental runs only), the snapshot scan, the shard
\* listing, the group computation, or the metadata persist after the loop
\* has passed every group; an iteration of the loop never ends the run, so
\* group failures alone give a result with a nil error.  A run that failed
\* before the loop has processed no group and called UploadFile never, and
\* no step before the loop changes the remote storage.
C11_StateLevelFailures ==
    /\ [](/\ pc = "failed" =>
                /\ err \in EarlyErrors \cup {"failed to save metadata"}
                /\ mode = "full" => err \notin LoadErrors
                /\ err \in EarlyErrors =>
                      /\ idx = 0
                      /\ groups = << >>
                      /\ attempts = << >>
                      /\ calls = << >>
                      /\ result = NewResult
                /\ err = "failed to save metadata" =>
                      /\ idx = Len(groups) + 1
                      /\ Len(attempts) = Len(groups)
          /\ pc = "done" =>
                /\ err = ""
                /\ result.TotalArchives = Len(groups)
                /\ result.ErrorArchives = FailedNames(attempts))
    /\ [][/\ (pc = "process" /\ idx <= Len(groups)) => pc' = "process"
          /\ (pc' = "failed" /\ pc # "failed") =>
                \/ pc \in {"load", "download", "scan", "list"}
                \/ pc = "process" /\ idx > Len(groups)
          /\ pc \in {"load", "download", "scan", "list"} => remote' = remote
          /\ (pc = "failed" /\ err \in EarlyErrors) => remote' = remote]_vars

\* C11 witness: an incremental run over a changed chunk directory failed
\* at the shard listing, after the prior metadata was loaded and the
\* snapshot scanned.
C11_Witness ==
    /\ pc = "failed"
    /\ mode = "incremental"
    /\ err = "failed to get chunk directories"
    /\ CompareFileTrees(oldMetadata.FileTree, fileTree) # {}

\* C12: an incremental run groups by the prefixDigits of the prior metadata
\* it loaded, whatever the configured value: every group's Prefix is the
\* first oldMetadata.PrefixDigits characters of each of its members and its
\* ArchiveName is the range of that prefix; the metadata it persists holds
\* the same prefixDigits, and no step of an incremental run changes the
\* prefixDigits of the remote metadata document, so the value stays the one
\* the last full run wrote.
C12_IncrementalKeepsPrefixDigits ==
    /\ []((mode = "incremental" /\ pc \in {"process", "done"}) =>
            /\ \A i \in 1..Len(groups) :
                  LET r == calculateRange(groups[i].Prefix,
                                          oldMetadata.PrefixDigits)
                  IN /\ Len(groups[i].Prefix) = oldMetadata.PrefixDigits
                     /\ \A j \in 1..Len(groups[i].Directories) :
                           SubSeq(groups[i].Directories[j], 1,
                                  oldMetadata.PrefixDigits) = groups[i].Prefix
                     /\ groups[i].ArchiveName = ArchiveNameOf(r[1], r[2])
            /\ remote[MetadataPath].PrefixDigits = oldMetadata.PrefixDigits)
    /\ [][(mode = "incremental" /\ MetadataPath \in DOMAIN remote) =>
            /\ MetadataPath \in DOMAIN remote'
            /\ remote'[MetadataPath].PrefixDigits
                  = remote[MetadataPath].PrefixDigits]_vars

\* C12 witness: an incremental run configured with prefixDigits 1 returned
\* its result over the two groups that the stored prefixDigits 2 gives.
C12_Witness ==
    /\ pc = "done"
    /\ mode = "incremental"
    /\ prefixDigits = 1
    /\ oldMetadata.PrefixDigits = 2
    /\ Len(groups) = 2

\* C13 as claimed: an incremental run that loaded a prior metadata document
\* whose schema version is not 1 fails with an error: it does not go on to
\* scan, process groups or overwrite the document, so an incremental run
\* that is past its load step has loaded a document of version 1.
C13_UnknownVersionRejected ==
    (mode = "incremental" /\ pc \in {"scan", "list", "process", "done"}) =>
        oldMetadata.Version = MetadataVersion

\* A call of GenerateArchiveGroups with a prefixDigits in 1..4 has returned.
Grouped ==
    /\ call.fn = "GenerateArchiveGroups"
    /\ call.prefixDigits \in 1..4

\* The names of a list that have 4 characters.
FourCharacterNames(directories) ==
    {d \in Range(directories) : Len(d) = 4}

\* The groups of a list that hold a name.
GroupsHolding(gs, name) ==
    {i \in 1..Len(gs) : name \in Range(gs[i].Directories)}

\* C14: for every list of names and every prefixDigits in 1..4,
\* GenerateArchiveGroups returns no error, every 4-character name of the
\* list is a member of exactly one group, the Prefix of that group is the
\* name's first prefixDigits characters, every member of a group is a
\* 4-character name of the list, no group is empty, and there are as many
\* groups as distinct prefixes.
C14_GroupsPartitionNames ==
    Grouped =>
      LET gs == call.out.groups
          names == FourCharacterNames(call.directories)
          firstChars(n) == [k \in 1..call.prefixDigits |-> n[k]]
      IN /\ call.out.err = ""
         /\ \A n \in names :
               /\ Cardinality(GroupsHolding(gs, n)) = 1
               /\ \A i \in GroupsHolding(gs, n) : gs[i].Prefix = firstChars(n)
         /\ \A i \in 1..Len(gs) :
               /\ gs[i].Directories # << >>
               /\ Range(gs[i].Directories) \subseteq names
         /\ Len(gs) = Cardinality({firstChars(n) : n \in names})

\* C14 witness: the seven names of the example grouped by one character
\* into three groups.
C14_Witness ==
    /\ Grouped
    /\ call.directories = ExampleDirs
    /\ call.prefixDigits = 1
    /\ Len(call.out.groups) = 3

\* A list with the elements at positions i and j exchanged.
Swapped(l, i, j) ==
    [k \in 1..Len(l) |-> IF k = i THEN l[j] ELSE IF k = j THEN l[i] ELSE l[k]]

\* a <= b for Go strings.
StrLessEq(a, b) == a = b \/ StrLess(a, b)

\* C15: the list GenerateArchiveGroups returns does not depend on the order
\* of its input: exchanging any two names of the input gives the same
\* groups (the checked inputs hold every ordering of every list, so this
\* covers every reordering); the groups are in strictly ascending order of
\* Prefix and the Directories of each group are in ascending order.
C15_GroupingDeterministic ==
    Grouped =>
      LET gs == call.out.groups
      IN /\ \A i, j \in 1..Len(call.directories) :
               GenerateArchiveGroups(Swapped(call.directories, i, j),
                                     call.prefixDigits) = call.out
         /\ \A i \in 1..(Len(gs) - 1) : StrLess(gs[i].Prefix, gs[i + 1].Prefix)
         /\ \A i \in 1..Len(gs) :
               \A j \in 1..(Len(gs[i].Directories) - 1) :
                  StrLessEq(gs[i].Directories[j], gs[i].Directories[j + 1])

\* C15 witness: three names of one group handed over in descending order,
\* upper case among them, came back in ascending order.
C15_Witness ==
    /\ Grouped
    /\ call.prefixDigits = 2
    /\ call.directories =
          <<<<"0", "0", "f", "f">>, <<"0", "0", "0", "1">>,
            <<"0", "0", "A", "B">>>>
    /\ Len(call.out.groups) = 1
    /\ call.out.groups[1].Directories =
          <<<<"0", "0", "0", "1">>, <<"0", "0", "A", "B">>,
            <<"0", "0", "f", "f">>>>

\* A prefix padded on the right with a character to 4 characters.
PadTo4(prefix, c) == [k \in 1..4 |-> IF k <= Len(prefix) THEN prefix[k] ELSE c]

\* The tuple of the characters of "<startRange>-<endRange>.tar.gz".
RangeArchiveName(startRange, endRange) ==
    startRange \o <<"-">> \o endRange
        \o <<".", "t", "a", "r", ".", "g", "z">>

\* C16: every group has the prefix padded with "0" to 4 characters as its
\* StartRange, the prefix padded with "f" as its EndRange and
\* "<StartRange>-<EndRange>.tar.gz" as its ArchiveName; every member that
\* is a shard name (4 hexadecimal characters) lies between StartRange and
\* EndRange; no two groups of one call have the same ArchiveName.
C16_RangesAndNames ==
    Grouped =>
      LET gs == call.out.groups
      IN /\ \A i \in 1..Len(gs) :
               /\ gs[i].StartRange = PadTo4(gs[i].Prefix, "0")
               /\ gs[i].EndRange = PadTo4(gs[i].Prefix, "f")
               /\ gs[i].ArchiveName
                     = RangeArchiveName(gs[i].StartRange, gs[i].EndRange)
               /\ \A j \in 1..Len(gs[i].Directories) :
                     LET m == gs[i].Directories[j]
                     IN hexPattern(m) =>
                           /\ StrLessEq(gs[i].StartRange, m)
                           /\ StrLessEq(m, gs[i].EndRange)
         /\ \A i, j \in 1..Len(gs) :
               gs[i].ArchiveName = gs[j].ArchiveName => i = j

\* C16 witness: the seven names of the example grouped by two characters
\* into 0000-00ff, 0100-01ff, ab00-abff and ff00-ffff.
C16_Witness ==
    /\ Grouped
    /\ call.directories = ExampleDirs
    /\ call.prefixDigits = 2
    /\ [i \in 1..Len(call.out.groups) |->
           <<call.out.groups[i].StartRange, call.out.groups[i].EndRange>>]
          = << <<<<"0", "0", "0", "0">>, <<"0", "0", "f", "f">>>>,
               <<<<"0", "1", "0", "0">>, <<"0", "1", "f", "f">>>>,
               <<<<"a", "b", "0", "0">>, <<"a", "b", "f", "f">>>>,
               <<<<"f", "f", "0", "0">>, <<"f", "f", "f", "f">>>> >>

\* C17 as claimed: a name that is not 4 hexadecimal characters is a member
\* of no group and gives rise to no group: the groups are those of the
\* shard names of the list alone.
C17_MalformedNamesIgnored ==
    Grouped =>
      LET gs == call.out.groups
          shardNames == {d \in Range(call.directories) : hexPattern(d)}
      IN /\ \A d \in Range(call.directories) :
               ~hexPattern(d) => GroupsHolding(gs, d) = {}
         /\ Len(gs) = Cardinality({[k \in 1..call.prefixDigits |-> n[k]] :
                                      n \in shardNames})

\* A run is under way whose grouping granularity is outside 1..4: the
\* configured value of a full run, the stored value an incremental run has
\* loaded.
OutOfRangeRun ==
    /\ pc # "idle"
    /\ \/ mode = "full" /\ prefixDigits \notin 1..4
       \/ /\ mode = "incremental"
          /\ oldMetadata # NoMetadata
          /\ oldMetadata.PrefixDigits \notin 1..4

\* C18: GenerateArchiveGroups returns an error and no groups for a
\* prefixDigits outside 1..4, whatever the chunk directory holds; a run
\* whose grouping granularity is outside 1..4 never reaches the loop over
\* the groups: it ends in an error, that of the group computation unless
\* the scan or the listing failed first, with no group, no archive built
\* and no UploadFile call, and no step of it changes the remote storage,
\* so the remote metadata document stays as it was.
C18_OutOfRangePrefixDigits ==
    /\ [](/\ \A pd \in {-1, 0, 5, 6} :
                LET gen == GenerateArchiveGroups(GetChunkDirectories(chunk), pd)
                IN gen.err # "" /\ gen.groups = << >>
          /\ OutOfRangeRun =>
                /\ pc \in {"scan", "list", "failed"}
                /\ pc = "failed" =>
                      err \in {"failed to scan file tree",
                               "failed to scan current file tree",
                               "failed to get chunk directories",
                               "failed to generate archive groups"}
                /\ groups = << >>
                /\ attempts = << >>
                /\ calls = << >>
                /\ result = NewResult
                /\ mode = "incremental" => remote[MetadataPath] = oldMetadata)
    /\ [][OutOfRangeRun => remote' = remote]_vars

\* C18 witness: an incremental run over a changed chunk directory loaded a
\* metadata document with prefixDigits 5 and ended with the error of the
\* group computation.
C18_Witness ==
    /\ pc = "failed"
    /\ mode = "incremental"
    /\ oldMetadata.PrefixDigits = 5
    /\ err = "failed to generate archive groups"
    /\ CompareFileTrees(oldMetadata.FileTree, fileTree) # {}
    /\ remote[MetadataPath] = oldMetadata

\* Structural equality of two snapshot nodes: equal size, equal
\* modification time, equal is-directory flag and, for directories, the
\* same child names with structurally equal children under each.
RECURSIVE StructurallyEqual(_, _)
StructurallyEqual(a, b) ==
    /\ a.Size = b.Size
    /\ a.ModTime = b.ModTime
    /\ a.IsDir = b.IsDir
    /\ a.IsDir =>
          /\ DOMAIN a.Children = DOMAIN b.Children
          /\ \A c \in DOMAIN a.Children :
                StructurallyEqual(a.Children[c], b.Children[c])

\* C19: CompareFileTrees(previous, current) returns exactly the shard names
\* that are in current only, in previous only, or in both with nodes that
\* are not structurally equal; it returns the empty set for two identical
\* snapshots, and the same set with its arguments exchanged.
C19_CompareReturnsChangedShards ==
    call.fn = "CompareFileTrees" =>
      LET previous == call.oldTree
          current == call.newTree
      IN /\ call.out =
               (DOMAIN current \ DOMAIN previous)
                  \cup (DOMAIN previous \ DOMAIN current)
                  \cup {d \in DOMAIN previous \cap DOMAIN current :
                           ~StructurallyEqual(previous[d], current[d])}
         /\ previous = current => call.out = {}
         /\ CompareFileTrees(current, previous) = call.out

\* C19 witness: of two shards present in both snapshots, the one whose
\* nodes differ only in a child name two levels down is returned, and the
\* unchanged one is not.
C19_Witness ==
    /\ call.fn = "CompareFileTrees"
    /\ call.oldTree = ScanFileTree([s \in Shards |->
                         IF s = Shard00 THEN ContentDeepF ELSE ContentA])
    /\ call.newTree = ScanFileTree([s \in Shards |->
                         IF s = Shard00 THEN ContentDeepG ELSE ContentA])
    /\ call.out = {Shard00}

\* The character is a hexadecimal digit, in either case.
IsHexDigit(c) ==
    \/ CharCode[c] \in 48..57
    \/ CharCode[c] \in 65..70
    \/ CharCode[c] \in 97..102

\* The entries directly under a chunk root that are directories named with
\* 4 hexadecimal characters.
ShardEntries(disk) ==
    {n \in DOMAIN disk :
        /\ disk[n].Kind = "dir"
        /\ Len(n) = 4
        /\ \A k \in 1..Len(n) : IsHexDigit(n[k])}

\* C20: for a chunk root that does not change during the call, the keys of
\* the snapshot ScanFileTree returns and the names GetChunkDirectories
\* returns are both exactly the directories directly under the root named
\* with 4 hexadecimal characters of either case; GetChunkDirectories
\* returns each once, in ascending order.
C20_ScannerAcceptsShardDirectories ==
    call.fn = "Scanner" =>
      /\ DOMAIN call.fileTree = ShardEntries(call.disk)
      /\ Range(call.directories) = ShardEntries(call.disk)
      /\ \A i \in 1..(Len(call.directories) - 1) :
            StrLess(call.directories[i], call.directories[i + 1])
      /\ \A n \in DOMAIN call.fileTree : call.fileTree[n].IsDir

\* C20 witness: the scanner was given a root in which 0000 is a regular
\* file and 00AB, abCd, test, abc and 00000 are directories: it returned
\* 00AB and abCd, in that order.
C20_Witness ==
    /\ call.fn = "Scanner"
    /\ call.disk[<<"0", "0", "0", "0">>].Kind = "file"
    /\ \A n \in DOMAIN call.disk \ {<<"0", "0", "0", "0">>} :
          call.disk[n].Kind = "dir"
    /\ call.directories = <<<<"0", "0", "A", "B">>, <<"a", "b", "C", "d">>>>
    /\ DOMAIN call.fileTree = Range(call.directories)

\* Every directory node of the subtree has the sum of the Size of its
\* direct children as Size, and every other node has no children.
RECURSIVE SizesAddUp(_)
SizesAddUp(node) ==
    IF node.IsDir
    THEN /\ node.Size = SumOver([c \in DOMAIN node.Children |->
                                    node.Children[c].Size])
         /\ \A c \in DOMAIN node.Children : SizesAddUp(node.Children[c])
    ELSE DOMAIN node.Children = {}

\* C21: in every snapshot ScanFileTree returns, every directory node at
\* every depth has a Size equal to the sum of the Size of its direct
\* children (0 for an empty directory), and every node that is not a
\* directory has no children.
C21_DirectorySizeIsSumOfChildren ==
    call.fn = "Scanner" =>
      \A n \in DOMAIN call.fileTree : SizesAddUp(call.fileTree[n])

\* C21 witness: the scanner was given a root in which 0000 holds a
\* directory that holds a file, 00AB holds an empty directory and abCd
\* holds two files: the three nodes have the sizes 1, 0 and 2, and the
\* directory inside 0000 has the size 1.
C21_Witness ==
    /\ call.fn = "Scanner"
    /\ call.disk[<<"0", "0", "0", "0">>] = ContentDeepF
    /\ call.disk[<<"0", "0", "A", "B">>] = ContentEmptyDir
    /\ call.disk[<<"a", "b", "C", "d">>] = ContentFG
    /\ call.fileTree[<<"0", "0", "0", "0">>].Size = 1
    /\ call.fileTree[<<"0", "0", "0", "0">>].Children[FileName].Size = 1
    /\ call.fileTree[<<"0", "0", "0", "0">>].Children[FileName].IsDir
    /\ call.fileTree[<<"0", "0", "A", "B">>].Size = 0
    /\ call.fileTree[<<"a", "b", "C", "d">>].Size = 2

\* C22: once the context of a run is cancelled or past its deadline, the
\* groups the loop has not started yet are not processed: for a group that
\* the loop reached with the context already done, no archive is built and
\* no upload is tried, and it is not listed in ErrorArchives.
C22_CancelledRunStopsProcessing ==
    \A i \in 1..Len(attempts) :
        attempts[i].ctxDoneAtStart =>
          /\ ~attempts[i].built
          /\ ~attempts[i].tried
          /\ attempts[i].name \notin Range(result.ErrorArchives)

\* C23: after processArchiveGroup has returned for a group, whichever way
\* it returned, neither the scratch archive of the group nor its scratch
\* checksum file is in Config.TempPath.
C23_ScratchFilesRemoved ==
    \A i \in 1..Len(attempts) :
        attempts[i].processed =>
          /\ attempts[i].name \notin temp
          /\ (attempts[i].name \o Sha256Suffix) \notin temp

\* The members of the group that are on disk, in the order of the group.
MembersOnDisk(group, disk) ==
    LET onDisk(d) == d \in DOMAIN disk /\ disk[d].Kind # "none"
    IN SelectSeq(group.Directories, onDisk)

\* C24: when a member of a group has disappeared from disk by the time
\* the archive is built, the member is skipped, the archive holds the
\* members still on disk, each with its subtree, in the order of the
\* group, and the group is not reported as failed because of the missing
\* member.
C24_MissingMemberSkipped ==
    /\ (pc = "process" /\ frame # NoFrame /\ frame.built
           /\ frame.diskOps = diskOps) =>
          LET present == MembersOnDisk(groups[idx], chunk)
          IN /\ Len(frame.archive) = Len(present)
             /\ \A k \in 1..Len(present) :
                   /\ frame.archive[k].Name = present[k]
                   /\ frame.archive[k].Tree
                         = addDirectoryToTar(chunk[present[k]])
    /\ \A i \in 1..Len(attempts) :
          /\ "member_removed" \notin attempts[i].failed
          /\ (attempts[i].processed /\ attempts[i].failed = {}) =>
                attempts[i].built /\ attempts[i].err = ""

\* The shards of the prior snapshot that the snapshot of the run no longer
\* holds and whose name starts with the prefix of the group.
DeletedMembers(group) ==
    {d \in DOMAIN oldMetadata.FileTree :
        /\ d \notin DOMAIN fileTree
        /\ prefixOf(d, GroupingDigits) = group.Prefix}

\* C25: in an incremental run, a group of the current listing to which a
\* shard of the prior snapshot belonged that has been deleted since is
\* marked dirty.
C25_DeletedShardDirtiesGroup ==
    (mode = "incremental" /\ pc \in {"process", "done"}) =>
      \A i \in 1..Len(groups) :
          DeletedMembers(groups[i]) # {} => groups[i].NeedsUpdate

\* The path ends with the suffix.
HasSuffix(path, suffix) ==
    /\ Len(path) >= Len(suffix)
    /\ SubSeq(path, Len(path) - Len(suffix) + 1, Len(path)) = suffix

\* C26: whenever the remote holds a checksum record <archiveName>.sha256,
\* it holds <archiveName> too, and the digest in the record is the hash of
\* that remote archive.
C26_RemoteRecordMatchesRemoteArchive ==
    \A path \in DOMAIN remote :
        HasSuffix(path, Sha256Suffix) =>
          LET archivePath == SubSeq(path, 1, Len(path) - Len(Sha256Suffix))
          IN /\ archivePath \in DOMAIN remote
             /\ remote[path][1] = CalculateChecksum(remote[archivePath])

\* C27: in every result a run returns, each group has one outcome:
\* TotalArchives is the number of groups and equals UpdatedArchives +
\* SkippedArchives + len(ErrorArchives), no archive name is twice in
\* ErrorArchives, and Details has an entry for every group.  During the
\* loop the three counts add up to the number of groups passed.
C27_EachGroupOneOutcome ==
    LET counted == result.UpdatedArchives + result.SkippedArchives
                      + Len(result.ErrorArchives)
    IN /\ pc = "process" => counted = idx - 1
       /\ pc = "done" =>
            /\ result.TotalArchives = Len(groups)
            /\ result.TotalArchives = counted
            /\ \A i, j \in 1..Len(result.ErrorArchives) :
                  result.ErrorArchives[i] = result.ErrorArchives[j] => i = j
            /\ \A i \in 1..Len(groups) :
                  groups[i].ArchiveName \in DOMAIN result.Details

\* C27 witness: an incremental run over two groups returned a result in
\* which one group is an error and the other one is skipped, with a Details
\* entry for both.
C27_Witness ==
    /\ pc = "done"
    /\ mode = "incremental"
    /\ result.TotalArchives = 2
    /\ result.UpdatedArchives = 0
    /\ result.SkippedArchives = 1
    /\ Len(result.ErrorArchives) = 1
    /\ DOMAIN result.Details = {groups[1].ArchiveName, groups[2].ArchiveName}

\* C28: in every result a run returns, UploadedFiles has two names for
\* each group counted in UpdatedArchives and nothing else, and holds
\* neither the archive name nor the .sha256 name of a group listed in
\* ErrorArchives.
C28_UploadedFilesOfUpdatedGroups ==
    pc = "done" =>
      /\ Len(result.UploadedFiles) = 2 * result.UpdatedArchives
      /\ \A i \in 1..Len(result.ErrorArchives) :
            /\ result.ErrorArchives[i] \notin Range(result.UploadedFiles)
            /\ (result.ErrorArchives[i] \o Sha256Suffix)
                  \notin Range(result.UploadedFiles)

\* The errors of a group whose archive was uploaded and whose checksum
\* record was not.
ChecksumStepErrors ==
    {"failed to create checksum file", "failed to upload checksum file"}

\* What the groups passed so far have uploaded, in order: the archive and
\* the checksum record of a group that succeeded with an upload, the
\* archive alone of a group that failed in the checksum step.
RECURSIVE ExpectedUploads(_)
ExpectedUploads(as) ==
    IF as = << >> THEN << >>
    ELSE LET a == Head(as)
             own == IF a.processed /\ a.tried /\ a.err = ""
                    THEN <<a.name, a.name \o Sha256Suffix>>
                    ELSE IF a.err \in ChecksumStepErrors THEN <<a.name>>
                    ELSE << >>
         IN own \o ExpectedUploads(Tail(as))

\* The remote paths of the UploadFile calls of the run that succeeded,
\* the metadata document left out.
UploadedPaths ==
    LET ok(c) == c.ok /\ c.path # MetadataPath
        done == SelectSeq(calls, ok)
    IN [k \in 1..Len(done) |-> done[k].path]

\* The archive that the group being processed has uploaded while its
\* checksum record is still to come.
InFlight ==
    IF frame.at \in {"checksum_file", "upload_checksum"}
    THEN <<groups[idx].ArchiveName>> ELSE << >>

\* C28 (amended): during the loop and in every result, UploadedFiles lists
\* in order exactly the files whose upload succeeded: the archive name and
\* the .sha256 name of each group counted in UpdatedArchives, the archive
\* name alone of each group in ErrorArchives that failed in the checksum
\* step after its archive was uploaded, and during the loop the archive of
\* the group being processed once it is uploaded.  In a result its length
\* is twice UpdatedArchives plus the number of those failed groups, and it
\* never holds the .sha256 name of a group in ErrorArchives.
C28_UploadedFilesAreSuccessfulUploads ==
    pc \in {"process", "done"} =>
      /\ result.UploadedFiles = ExpectedUploads(attempts) \o InFlight
      /\ [k \in 1..Len(result.UploadedFiles) |->
             Join(RemotePath, result.UploadedFiles[k])] = UploadedPaths
      /\ Len(result.UploadedFiles)
            = 2 * result.UpdatedArchives
                + Cardinality({i \in 1..Len(attempts) :
                                 attempts[i].err \in ChecksumStepErrors})
                + Len(InFlight)
      /\ \A i \in 1..Len(result.ErrorArchives) :
            /\ (result.ErrorArchives[i] \o Sha256Suffix)
                  \notin Range(result.UploadedFiles)
            /\ result.ErrorArchives[i] \in Range(result.UploadedFiles)
                  <=> \E j \in 1..Len(attempts) :
                        /\ attempts[j].name = result.ErrorArchives[i]
                        /\ attempts[j].err \in ChecksumStepErrors

\* C28 witness: a run over two groups returned a result in which the first
\* group is updated and the second one is an error because the upload of
\* its checksum record failed: UploadedFiles holds three names, the last
\* one the archive of the failed group.
C28_Witness ==
    /\ pc = "done"
    /\ Len(groups) = 2
    /\ result.UpdatedArchives = 1
    /\ result.ErrorArchives = <<groups[2].ArchiveName>>
    /\ attempts[2].err = "failed to upload checksum file"
    /\ result.UploadedFiles
          = <<groups[1].ArchiveName, groups[1].ArchiveName \o Sha256Suffix,
              groups[2].ArchiveName>>

\* C29: in the metadata document a run has persisted, every key of
\* Checksums is the archive name of a group the run computed from its
\* listing.
C29_ChecksumKeysAreCurrentGroups ==
    pc = "done" =>
      DOMAIN remote[MetadataPath].Checksums
          \subseteq {groups[i].ArchiveName : i \in 1..Len(groups)}

\* C30: in a run that got as far as the loop over the groups, the shard
\* names placed in the groups are the keys of the snapshot the run
\* persists.
C30_GroupedNamesAreSnapshotKeys ==
    pc \in {"process", "done"} =>
      UNION {Range(groups[i].Directories) : i \in 1..Len(groups)}
          = DOMAIN fileTree

====
